---- MODULE Spec2Model ----
(***************************************************************************)
(* Model of crowsnest-connector-cluon: lidar envelopes are grouped into    *)
(* revolutions, decoded into point clouds (lidar_utils.py), passed through *)
(* latest() and rate_limit(0.5), joined with the latest position and       *)
(* heading by combine_latest(emit_on=pcd_extractor), rotated and published *)
(* on MQTT (main.py).                                                      *)
(*                                                                         *)
(* Lengths are kept in centimetres (the raw big-endian 16 bit samples), so *)
(* that 0.5 m is 50 and 200 m is 20000.  Angles are whole degrees.  Time   *)
(* is counted in ticks of 250 ms.  A point is kept in spherical form       *)
(* [raw, az, el]: its Cartesian image under sph2cart is                    *)
(*   (d cos el cos az, -d cos el sin az, d sin el),  d = raw / 100.        *)
(***************************************************************************)
EXTENDS Integers, Sequences, FiniteSets, TLC

VARIABLES
    buffer,      \* partition(K).buffer: envelopes of the revolution being collected
    latestNext,  \* latest().next: [] or [x]
    cbState,     \* latest().cb: "waiting" on the condition, "woken", or "sleeping" inside rate_limit
    held,        \* the item rate_limit.update is sleeping on (<<>> when none)
    wakeAt,      \* the time at which that sleep ends
    rlNext,      \* rate_limit.next
    last,        \* combine_latest.last, fields pos, hdg, pcd (<<>> is Python's None)
    missing,     \* combine_latest.missing
    published,   \* the calls made to mq.publish, in order
    now,         \* time(), in ticks
    produced,    \* history: produced[i] is the time at which cloud i left the decoder
    dropped,     \* history: ids of the clouds that reached the join while a sample was missing
    replaced,    \* history: ids of the clouds overwritten in latest().next
    failed,      \* history: some revolution yielded no point cloud
    arrived,     \* history: the lidar envelopes in their order of arrival
    decoded      \* history: the last revolution handed to the decoder and what it returned

vars == <<buffer, latestNext, cbState, held, wakeAt, rlNext, last, missing,
          published, now, produced, dropped, replaced, failed, arrived, decoded>>

----------------------------------------------------------------------------
(* Bounds of the model *)

MaxTime == 4        \* the clock stops after this many ticks
MaxClouds == 3      \* at most this many point clouds leave the decoder
MaxArrivals == 5    \* at most this many envelopes arrive in the grouping model

(* Program constants *)

K == 2              \* CLUON_ENVELOPES_PER_REVOLUTION
Interval == 2       \* rate_limit(0.5): 0.5 s = 2 ticks of 250 ms
CLUON_SENSOR_ORIENTATION_X == 0
CLUON_SENSOR_ORIENTATION_Y == 0
CLUON_SENSOR_ORIENTATION_Z == 0

VERTICAL_ANGLES_16 ==
    <<-15, -13, -11, -9, -7, -5, -3, -1, 1, 3, 5, 7, 9, 11, 13, 15>>

----------------------------------------------------------------------------
(* lidar_utils.py *)

Max(a, b) == IF a >= b THEN a ELSE b

\* len(distances) / 2 is a true division: the result is a float, kept here
\* as the fraction num/den.
get_number_of_points(distances) == [num |-> Len(distances), den |-> 2]

get_number_of_azimuths(number_of_points, entries_per_azimuth) ==
    [num |-> number_of_points.num, den |-> number_of_points.den * entries_per_azimuth]

\* int(x) of a non-negative float: truncation
IntOf(q) == q.num \div q.den

\* np.linspace(start, stop, num, endpoint=True), on whole degrees
Linspace(start, stop, num) ==
    [i \in 1..num |-> IF num = 1 THEN start
                      ELSE start + ((stop - start) * (i - 1)) \div (num - 1)]

\* np.frombuffer(b, dtype=">u2"): big-endian unsigned 16 bit
FromBuffer(b) == [i \in 1..(Len(b) \div 2) |-> b[2 * i - 1] * 256 + b[2 * i]]

\* Beams on which the IEEE double evaluation of
\*   sqrt((x*x + y*y) + z*z),  x = d*cos(el)*cos(az), y = -(d*cos(el)*sin(az)), z = d*sin(el)
\* falls below d = 0.5 (0.49999999999999994), resp. above d = 200.0
\* (200.00000000000003), at azimuths 0, 90 and 180 degrees.
NormBelowHalf == {-7, -3, 3, 7}
NormAbove200 == {-11, -9, -3, -1, 1, 3, 9, 11}

\* np.logical_and(norms >= 0.5, norms <= 200) for the point (raw, el)
condition(raw, el) ==
    /\ raw > 50 \/ (raw = 50 /\ el \notin NormBelowHalf)
    /\ raw < 20000 \/ (raw = 20000 /\ el \notin NormAbove200)

\* sph2cart: meshgrid(elevations, azimuths) flattened row by row, multiplied by
\* distances under numpy broadcasting.  ok = FALSE is numpy's ValueError
\* (operands could not be broadcast together).
sph2cart(azimuths, elevations, distances) ==
    LET G == Len(azimuths) * Len(elevations)
        m == Len(distances)
    IN  IF m = G \/ m = 1
          THEN [ok |-> TRUE,
                points |-> [i \in 1..G |->
                    [raw |-> IF m = 1 THEN distances[1] ELSE distances[i],
                     az  |-> azimuths[((i - 1) \div Len(elevations)) + 1],
                     el  |-> elevations[((i - 1) % Len(elevations)) + 1]]]]
        ELSE IF G = 1
          THEN [ok |-> TRUE,
                points |-> [i \in 1..m |->
                    [raw |-> distances[i], az |-> azimuths[1], el |-> elevations[1]]]]
        ELSE [ok |-> FALSE, points |-> <<>>]

RECURSIVE FilterSeq(_)
\* points[condition]
FilterSeq(s) ==
    IF s = <<>> THEN <<>>
    ELSE IF condition(Head(s).raw, Head(s).el)
         THEN <<Head(s)>> \o FilterSeq(Tail(s))
         ELSE FilterSeq(Tail(s))

\* get_points: ok = FALSE when np.frombuffer or the broadcast raises
get_points(azimuths, elevations, binary_distances) ==
    IF Len(binary_distances) % 2 # 0
    THEN [ok |-> FALSE, points |-> <<>>, grid |-> <<>>]
    ELSE LET c == sph2cart(azimuths, elevations, FromBuffer(binary_distances))
         IN  [ok |-> c.ok, points |-> FilterSeq(c.points), grid |-> c.points]

----------------------------------------------------------------------------
(* main.py: point_cloud_reading_extractor *)

RECURSIVE Accumulate(_)
\* The loop over the envelopes of one revolution (main.py 68-87): the
\* accumulated all_azimuths and all_binary_distances, or ok = FALSE when the
\* loop raises (ZeroDivisionError for entriesPerAzimuth = 0).
Accumulate(envelopes) ==
    IF envelopes = <<>>
    THEN [ok |-> TRUE, all_azimuths |-> <<>>, all_binary_distances |-> <<>>]
    ELSE LET msg == envelopes[Len(envelopes)]
             rest == Accumulate(SubSeq(envelopes, 1, Len(envelopes) - 1))
         IN  IF ~rest.ok THEN rest
             ELSE IF msg.distances = <<>> THEN rest
             ELSE IF msg.entriesPerAzimuth = 0
                  THEN [ok |-> FALSE, all_azimuths |-> <<>>, all_binary_distances |-> <<>>]
             ELSE LET n_points == get_number_of_points(msg.distances)
                      n_azimuths == get_number_of_azimuths(n_points, msg.entriesPerAzimuth)
                      azimuths == Linspace(msg.startAzimuth, msg.endAzimuth, IntOf(n_azimuths))
                  IN  [ok |-> TRUE,
                       all_azimuths |-> rest.all_azimuths \o azimuths,
                       all_binary_distances |-> rest.all_binary_distances \o msg.distances]

\* The decode of one revolution up to the range filter: what get_points is
\* called with and what it returns.
Decode(envelopes) ==
    LET acc == Accumulate(envelopes)
    IN  IF ~acc.ok THEN [ok |-> FALSE, points |-> <<>>, grid |-> <<>>]
        ELSE get_points(acc.all_azimuths, VERTICAL_ANGLES_16, acc.all_binary_distances)

\* point_cloud_reading_extractor: the points, or <<>> for None (an exception
\* was caught, or no point survived the filter).
point_cloud_reading_extractor(envelopes) ==
    LET r == Decode(envelopes)
    IN  IF r.ok THEN r.points ELSE <<>>

----------------------------------------------------------------------------
(* Inputs *)

\* A distances buffer of nBytes bytes whose j-th 16 bit sample is
\* vals[((j-1) % Len(vals)) + 1], big-endian; an odd nBytes cuts the last sample.
Bytes(nBytes, vals) ==
    [i \in 1..nBytes |->
        LET v == vals[((((i + 1) \div 2) - 1) % Len(vals)) + 1]
        IN  IF i % 2 = 1 THEN v \div 256 ELSE v % 256]

\* An opendlv_proxy_PointCloudReading as the extractor reads it
Reading(az, epa, distances) ==
    [startAzimuth |-> az, endAzimuth |-> az, entriesPerAzimuth |-> epa,
     distances |-> distances]

EmptyReading == Reading(0, 16, <<>>)
GoodReading == Reading(0, 16, Bytes(32, <<1000>>))
MixedReading == Reading(90, 16, Bytes(32, <<49, 50, 1000, 20000, 20001>>))
OddReading == Reading(0, 16, Bytes(3, <<1000>>))
NoiseReading == Reading(0, 16, Bytes(32, <<49>>))

\* The readings offered to the whole pipeline
PcdEnvelopes == {MixedReading, OddReading}

\* The readings offered to the decoder alone: buffers of 0 to 64 bytes, with
\* 0, 1, 8, 15 or 16 entries per azimuth, of uniform or of mixed samples.
DecodeLengths == {0, 1, 2, 3, 30, 31, 32, 33, 34, 64}
DecodeEntries == {0, 1, 8, 15, 16}
DecodeSamples == {<<1000>>, <<49, 50, 1000, 20000, 20001>>, <<49>>}

DecodeEnvelopes ==
    {Reading(IF Len(v) = 1 THEN 0 ELSE 90, epa, Bytes(n, v)) :
        n \in DecodeLengths, epa \in DecodeEntries, v \in DecodeSamples}

\* northHeading of a GeodeticHeadingReading, whole degrees
HdgEnvelopes == {[northHeading |-> 0], [northHeading |-> 90]}

\* GeodeticWgs84Reading, in units of 0.0000001 degree: (57.7, 11.9000004) and (58, 12)
PosEnvelopes ==
    {[latitude |-> 577000000, longitude |-> 119000004],
     [latitude |-> 580000000, longitude |-> 120000000]}

----------------------------------------------------------------------------
(* main.py: the stream graph *)

heading_extractor(envelope) == envelope.northHeading

position_extractor(envelope) == <<envelope.longitude, envelope.latitude>>

\* Rotation.from_euler("zyx", [hdg + Z, Y, X], degrees=True).apply(points), for
\* the default mounting Y = X = 0: a rotation by hdg + Z about the z axis,
\* which turns the point at azimuth az (xy angle -az) to azimuth az - (hdg + Z).
transform_coords_flipped(data) ==
    LET theta == data.hdg + CLUON_SENSOR_ORIENTATION_Z
    IN  [pos |-> data.pos,
         points |-> [i \in 1..Len(data.points) |->
                        [data.points[i] EXCEPT !.az = (@ + theta + 180) % 360]]]

transform_coords(data) ==
    LET theta == data.hdg + CLUON_SENSOR_ORIENTATION_Z
    IN  [pos |-> data.pos,
         points |-> [i \in 1..Len(data.points) |->
                        [data.points[i] EXCEPT !.az = (@ - theta) % 360]]]

\* geojson.Point(pos): the coordinates, each rounded to 6 decimals (geojson's
\* default precision), that is to the nearest ten units of 0.0000001 degree;
\* no coordinates for None.
geojson_Point(pos) == [i \in 1..Len(pos) |-> ((pos[i] + 5) \div 10) * 10]

\* to_mqtt: the payload handed to mq.publish; id and t are history fields
\* (which cloud it carries, when it was published).
to_mqtt(data, id, t) ==
    [origin |-> geojson_Point(data.pos), points |-> data.points, id |-> id, t |-> t]

\* combine_latest(pos, hdg, pcd, emit_on=pcd): the streams that trigger a tuple
emit_on == {"pcd"}

\* An entry of combine_latest.last: <<>> is None, <<v>> is the value v
Val(entry) == IF entry = <<>> THEN "None" ELSE entry[1]

\* The value as combine_latest stores it: a cloud without its history field seen
combine_update_no_pos(x, who) ==
    LET m == missing \ {who, "pos"}
        l == [last EXCEPT ![who] = <<x>>]
    IN  [missing |-> m, last |-> l, emits |-> (m = {} /\ who \in emit_on)]

combine_update_emit_on_all(x, who) ==
    LET m == missing \ {who}
        l == [last EXCEPT ![who] = <<x>>]
    IN  [missing |-> m, last |-> l, emits |-> (m = {})]

combine_update_forgets_cloud(x, who) ==
    LET m == missing \ {who}
        l == [last EXCEPT ![who] = <<x>>, !.pcd = IF who = "pcd" THEN <<x>> ELSE <<>>]
    IN  [missing |-> m, last |-> l, emits |-> (m = {} /\ who \in emit_on)]

\* combine_latest.update(x, who): the new missing and last, and whether the
\* tuple of last values is emitted.
combine_update(x, who) ==
    LET m == missing \ {who}
        l == [last EXCEPT ![who] = <<x>>]
    IN  [missing |-> m, last |-> l, emits |-> (m = {} /\ who \in emit_on)]

Combined_publishes_twice(x, who) ==
    LET c == combine_update(x, who)
        frame == to_mqtt(transform_coords([pos |-> IF c.last.pos = <<>> THEN <<>>
                                                   ELSE c.last.pos[1],
                                           hdg |-> Val(c.last.hdg),
                                           points |-> Val(c.last.pcd).points]),
                         Val(c.last.pcd).id, now)
    IN  /\ missing' = c.missing
        /\ last' = c.last
        /\ published' = IF c.emits THEN published \o <<frame, frame>> ELSE published
        /\ dropped' = IF who = "pcd" /\ ~c.emits THEN dropped \cup {x.id} ELSE dropped

\* combine_latest.update followed by what is downstream of it:
\* map(transform_coords) and sink(to_mqtt).
Combined(x, who) ==
    LET c == combine_update(x, who)
    IN  /\ missing' = c.missing
        /\ last' = c.last
        /\ published' =
              IF c.emits
              THEN Append(published,
                     to_mqtt(transform_coords([pos |-> IF c.last.pos = <<>> THEN <<>>
                                                       ELSE c.last.pos[1],
                                               hdg |-> Val(c.last.hdg),
                                               points |-> Val(c.last.pcd).points]),
                             Val(c.last.pcd).id, now))
              ELSE published
        /\ dropped' = IF who = "pcd" /\ ~c.emits THEN dropped \cup {x.id} ELSE dropped

Init ==
    /\ buffer = <<>>
    /\ latestNext = <<>>
    /\ cbState = "waiting"
    /\ held = <<>>
    /\ wakeAt = 0
    /\ rlNext = 0
    /\ last = [pos |-> <<>>, hdg |-> <<>>, pcd |-> <<>>]
    /\ missing = {"pos", "hdg", "pcd"}
    /\ published = <<>>
    /\ now = 0
    /\ produced = <<>>
    /\ dropped = {}
    /\ replaced = {}
    /\ failed = FALSE
    /\ arrived = <<>>
    /\ decoded = <<>>

filter_none_passes(x) == TRUE

\* filter(lambda x: x is not None)
filter_not_none(x) == x # <<>>

latest_update_keep_first(x) ==
    /\ latestNext' = IF latestNext = <<>> THEN <<x>> ELSE latestNext
    /\ cbState' = IF cbState = "waiting" THEN "woken" ELSE cbState

\* latest().update(x): store x, then condition.notify, which wakes cb only if
\* it is waiting on the condition.
latest_update(x) ==
    /\ latestNext' = <<x>>
    /\ cbState' = IF cbState = "waiting" THEN "woken" ELSE cbState

partition_sliding(full) == Tail(full)

\* partition(K).update when the buffer is full: result, self.buffer = self.buffer, []
partition_flush(full) == <<>>

\* pcd_source.emit(envelope): partition(K), map(point_cloud_reading_extractor),
\* filter(not None), latest().update.  The cloud travels with two history
\* fields: its number id and seen, the position and heading cached when it left
\* the decoder.  record names the histories that are kept: "decoded" (every
\* revolution and what the decoder returned), "arrived" (every envelope) and
\* "seen".
PcdArrival(envelope, record) ==
    LET full == Append(buffer, envelope)
        out == point_cloud_reading_extractor(full)
    IN  /\ arrived' = IF "arrived" \in record THEN Append(arrived, envelope) ELSE arrived
        /\ IF Len(full) < K
           THEN /\ buffer' = full
                /\ UNCHANGED <<latestNext, cbState, held, wakeAt, rlNext, last, missing,
                               published, now, produced, dropped, replaced, failed, decoded>>
           ELSE /\ filter_not_none(out) => Len(produced) < MaxClouds
                /\ buffer' = partition_flush(full)
                /\ decoded' = IF "decoded" \in record
                              THEN Append(decoded,
                                          [rev |-> full, out |-> out, grid |-> Decode(full).grid])
                              ELSE decoded
                /\ IF filter_not_none(out)
                   THEN /\ produced' = Append(produced, now)
                        /\ replaced' = replaced \cup {latestNext[i].id : i \in 1..Len(latestNext)}
                        /\ latest_update(
                              [id |-> Len(produced) + 1, points |-> out,
                               seen |-> IF "seen" \in record
                                        THEN [pos |-> last.pos, hdg |-> last.hdg]
                                        ELSE [pos |-> <<>>, hdg |-> <<>>]])
                   ELSE UNCHANGED <<produced, replaced, latestNext, cbState>>
                /\ failed' = (failed \/ ~filter_not_none(out))
                /\ UNCHANGED <<held, wakeAt, rlNext, last, missing, published, now, dropped>>

PcdEnvelope == \E e \in PcdEnvelopes : PcdArrival(e, {})

\* hdg_source.emit(envelope)
HdgArrival(envelope) ==
    /\ Combined(heading_extractor(envelope), "hdg")
    /\ UNCHANGED <<buffer, latestNext, cbState, held, wakeAt, rlNext, now,
                   produced, replaced, failed, arrived, decoded>>

HdgEnvelope == \E e \in HdgEnvelopes : HdgArrival(e)

\* pos_source.emit(envelope)
PosArrival(envelope) ==
    /\ Combined(position_extractor(envelope), "pos")
    /\ UNCHANGED <<buffer, latestNext, cbState, held, wakeAt, rlNext, now,
                   produced, replaced, failed, arrived, decoded>>

PosEnvelope == \E e \in PosEnvelopes : PosArrival(e)

rate_limit_next_no_max(t, next) == t + Interval

\* rate_limit.update: self.next = max(now, self.next) + self.interval
rate_limit_next(t, next) == Max(t, next) + Interval

\* latest().cb resumes after the notify: it takes next and emits it into
\* rate_limit(Interval).update, which emits at once or sleeps until old_next.
LatestCb ==
    /\ cbState = "woken"
    /\ LET x == latestNext[1]
           old_next == rlNext
       IN  /\ latestNext' = <<>>
           /\ rlNext' = rate_limit_next(now, rlNext)
           /\ IF now < old_next
              THEN /\ cbState' = "sleeping"
                   /\ held' = <<x>>
                   /\ wakeAt' = old_next
                   /\ UNCHANGED <<last, missing, published, dropped>>
              ELSE /\ cbState' = "waiting"
                   /\ Combined(x, "pcd")
                   /\ UNCHANGED <<held, wakeAt>>
    /\ UNCHANGED <<buffer, now, produced, replaced, failed, arrived, decoded>>

\* gen.sleep(old_next - now) in rate_limit.update returns: the held cloud is
\* emitted and cb goes back to waiting on the condition.
SleepDone ==
    /\ cbState = "sleeping"
    /\ now >= wakeAt
    /\ Combined(held[1], "pcd")
    /\ held' = <<>>
    /\ cbState' = "waiting"
    /\ UNCHANGED <<buffer, latestNext, wakeAt, rlNext, now, produced, replaced, failed, arrived, decoded>>

\* Time passes.  The loop runs a ready callback and a due timer before the
\* clock moves on.
Tick ==
    /\ now < MaxTime
    /\ cbState # "woken"
    /\ ~(cbState = "sleeping" /\ now >= wakeAt)
    /\ now' = now + 1
    /\ UNCHANGED <<buffer, latestNext, cbState, held, wakeAt, rlNext, last, missing,
                   published, produced, dropped, replaced, failed, arrived, decoded>>

Next ==
    \/ PcdEnvelope
    \/ HdgEnvelope
    \/ PosEnvelope
    \/ LatestCb
    \/ SleepDone
    \/ Tick

Spec == Init /\ [][Next]_vars

\* The decoder alone: one envelope of DecodeEnvelopes is buffered, a second one
\* completes the revolution, which is decoded and recorded in decoded.
InitDecode ==
    /\ buffer \in {<<e>> : e \in DecodeEnvelopes}
    /\ latestNext = <<>>
    /\ cbState = "waiting"
    /\ held = <<>>
    /\ wakeAt = 0
    /\ rlNext = 0
    /\ last = [pos |-> <<>>, hdg |-> <<>>, pcd |-> <<>>]
    /\ missing = {"pos", "hdg", "pcd"}
    /\ published = <<>>
    /\ now = 0
    /\ produced = <<>>
    /\ dropped = {}
    /\ replaced = {}
    /\ failed = FALSE
    /\ arrived = <<>>
    /\ decoded = <<>>

DecodeEnvelope ==
    /\ decoded = <<>>
    /\ \E e \in DecodeEnvelopes : PcdArrival(e, {"decoded"})

NextDecode == DecodeEnvelope

SpecDecode == InitDecode /\ [][NextDecode]_vars

\* The pipeline with the history field seen kept on every cloud: what position
\* and heading were cached when the cloud left the decoder.
TracePcdEnvelopes == {MixedReading}

TracePosEnvelopes == {[latitude |-> 577000000, longitude |-> 119000004]}

TracePcd == \E e \in TracePcdEnvelopes : PcdArrival(e, {"seen"})

TracePos == \E e \in TracePosEnvelopes : PosArrival(e)

NextTrace ==
    \/ TracePcd
    \/ HdgEnvelope
    \/ TracePos
    \/ LatestCb
    \/ SleepDone
    \/ Tick

SpecTrace == Init /\ [][NextTrace]_vars

\* The grouping of envelopes into revolutions: every envelope that arrives is
\* recorded in arrived, every revolution handed to the decoder in decoded.
GroupEnvelopes == {MixedReading, OddReading, EmptyReading}

GroupPcd ==
    /\ Len(arrived) < MaxArrivals
    /\ \E e \in GroupEnvelopes : PcdArrival(e, {"arrived", "decoded"})

NextGroup == GroupPcd

SpecGroup == Init /\ [][NextGroup]_vars

----------------------------------------------------------------------------
(* Properties of the join *)

\* A position and a heading have been observed: both are cached in last
BothSeen == last.pos # <<>> /\ last.hdg # <<>>

\* A step in which a point cloud reaches combine_latest
CloudReachesJoin == last'.pcd # last.pcd

\* C1: no frame is published in a step that starts while the heading or the
\* position has not been observed yet; once both have been observed, every
\* point cloud that reaches the join adds exactly one frame, carrying that
\* cloud, to what was published.
C1_LatestJoinGating ==
    [][ /\ ~BothSeen => published' = published
        /\ (BothSeen /\ CloudReachesJoin) =>
              /\ Len(published') = Len(published) + 1
              /\ SubSeq(published', 1, Len(published)) = published
              /\ published'[Len(published')].id = Val(last'.pcd).id ]_vars

\* A cloud was dropped at the join before the first fix and a later one was published
C1_Witness == dropped # {} /\ published # <<>>

\* C2: a heading or position update never publishes anything, never touches
\* latest() or the rate limiter and never makes a sample missing again; what
\* was published grows only in a step of latest().cb or of the rate limiter's
\* timer, that is, when a point cloud is passed on.
C2_OnlyPointCloudTriggers ==
    [][ /\ (HdgEnvelope \/ PosEnvelope) =>
              /\ published' = published
              /\ missing' \subseteq missing
              /\ UNCHANGED <<latestNext, cbState, held, wakeAt, rlNext>>
        /\ published' # published => (LatestCb \/ SleepDone) ]_vars

\* A frame was published with heading 0 (the reading's azimuth 90 is kept), and
\* the heading was updated to 90 afterwards without a second frame
C2_Witness ==
    /\ Len(published) = 1
    /\ published[1].points[1].az = 90
    /\ last.hdg = <<90>>

\* C10: a point cloud that reached the join while the heading or the position
\* was missing is never published, also not after the missing sample arrived.
C10_NoBacklog == \A k \in 1..Len(published) : published[k].id \notin dropped

\* A cloud was dropped, both samples arrived afterwards, and a later cloud was published
C10_Witness == dropped # {} /\ missing = {} /\ Len(published) >= 1 /\ BothSeen

----------------------------------------------------------------------------
(* Properties of latest() and rate_limit() *)

CeilDiv(a, b) == (a + b - 1) \div b

\* The interval the specification takes rate_limit(0.5) to mean: one frame
\* every 2 s (0.5 frames per second), four times the 0.5 s of the code.
ClaimedInterval == 4 * Interval

\* The number of frames published in every window [published[i].t, published[j].t]
\* is at most ceil(T / interval) + 1, T the length of the window.
RateBound(interval) ==
    \A i \in 1..Len(published) : \A j \in i..Len(published) :
        j - i + 1 <= CeilDiv(published[j].t - published[i].t, interval) + 1

C5_SinglePendingSlot ==
    /\ Len(latestNext) + Len(held) <= 1
    /\ \A k \in 1..Len(published) : \A j \in 1..Len(produced) :
          j > published[k].id => produced[j] >= published[k].t

----------------------------------------------------------------------------
(* Properties of the decoder *)

\* A slice whose buffer has an odd length, or whose number of samples is not
\* an integral multiple of its entries per azimuth
Malformed(msg) ==
    /\ msg.distances # <<>>
    /\ \/ Len(msg.distances) % 2 = 1
       \/ /\ msg.entriesPerAzimuth > 0
          /\ (Len(msg.distances) \div 2) % msg.entriesPerAzimuth # 0

\* C6: a revolution with a malformed slice yields no point cloud, whatever its
\* other slices contain.
C6_MalformedAborts ==
    decoded # <<>> =>
        ((\E i \in 1..Len(decoded[1].rev) : Malformed(decoded[1].rev[i]))
            => decoded[1].out = <<>>)

\* C7: a revolution whose decode yields nothing (an exception was caught, or
\* no point survived) empties the accumulator, as every revolution does, and
\* changes nothing else: not the cached samples, not the slot of latest(), not
\* the rate limiter, not what was published.
C7_FailureContained ==
    [][ \A e \in PcdEnvelopes :
          (/\ Len(buffer) = K - 1
           /\ buffer' = <<>>
           /\ point_cloud_reading_extractor(Append(buffer, e)) = <<>>
           /\ PcdArrival(e, {}))
          => UNCHANGED <<latestNext, cbState, held, wakeAt, rlNext, last, missing,
                         published, now, produced, dropped, replaced>> ]_vars

\* A revolution yielded nothing, the accumulator is empty again, and a cloud
\* waits in latest() behind one held by the rate limiter
C7_Witness ==
    /\ failed
    /\ buffer = <<>>
    /\ latestNext # <<>>
    /\ held # <<>>
    /\ published # <<>>

RECURSIVE SamplesByEntries(_)
\* The sum over the non-empty slices of entries per azimuth times azimuths generated
SamplesByEntries(rev) ==
    IF rev = <<>> THEN 0
    ELSE LET msg == Head(rev)
         IN  (IF msg.distances = <<>> THEN 0
              ELSE msg.entriesPerAzimuth *
                   IntOf(get_number_of_azimuths(get_number_of_points(msg.distances),
                                                msg.entriesPerAzimuth)))
             + SamplesByEntries(Tail(rev))

RECURSIVE TotalBytes(_)
TotalBytes(rev) == IF rev = <<>> THEN 0 ELSE Len(Head(rev).distances) + TotalBytes(Tail(rev))

\* C8: when the number of decoded samples of a revolution equals the sum over
\* its slices of entries per azimuth times azimuths generated, the geometry
\* kernel returns that many points before the range filter.
C8_DecodeShape ==
    decoded # <<>> =>
        LET rev == decoded[1].rev
        IN  (/\ \A i \in 1..Len(rev) : rev[i].distances # <<>> => rev[i].entriesPerAzimuth >= 1
             /\ TotalBytes(rev) % 2 = 0
             /\ TotalBytes(rev) \div 2 = SamplesByEntries(rev))
            => Len(decoded[1].grid) = TotalBytes(rev) \div 2

\* C9: every point of a decoded cloud comes from a sample of 50 to 20000 cm,
\* and every sample of 50 to 20000 cm that the geometry kernel turned into a
\* point is in the cloud.
C9_RangeFilter ==
    decoded # <<>> =>
        /\ \A k \in 1..Len(decoded[1].out) : decoded[1].out[k].raw \in 50..20000
        /\ \A i \in 1..Len(decoded[1].grid) :
              decoded[1].grid[i].raw \in 50..20000 =>
                  \E k \in 1..Len(decoded[1].out) : decoded[1].out[k] = decoded[1].grid[i]

----------------------------------------------------------------------------
(* Properties of the transform and of the payload *)

\* A step in which a frame is published
Publishes == Len(published') = Len(published) + 1

\* The frame published in this step
NewFrame == published'[Len(published')]

\* C11: with heading 0 and mount offsets (0, 0, 0), the published points are
\* the points of the joined cloud, unchanged and in the same order.
C11_TransformIdentity ==
    [][ (/\ Publishes
         /\ Val(last'.hdg) = 0
         /\ CLUON_SENSOR_ORIENTATION_X = 0
         /\ CLUON_SENSOR_ORIENTATION_Y = 0
         /\ CLUON_SENSOR_ORIENTATION_Z = 0)
        => NewFrame.points = Val(last'.pcd).points ]_vars

\* A frame was published under heading 0: its first point kept the azimuth 90
\* of the reading
C11_Witness ==
    /\ published # <<>>
    /\ last.hdg = <<0>>
    /\ published[Len(published)].id = Val(last.pcd).id
    /\ published[Len(published)].points[1].az = 90

----------------------------------------------------------------------------
(* Order of the rate limiter and the join *)

\* The cloud that leaves the rate limiter in this step: the one latest().cb
\* takes, or the one the rate limiter was sleeping on.
Leaving == IF cbState = "sleeping" THEN held[1] ELSE latestNext[1]

\* The frame made of cloud x with position pos and heading hdg
FrameOf(x, pos, hdg) ==
    to_mqtt(transform_coords([pos |-> pos, hdg |-> hdg, points |-> x.points]), x.id, now)

\* C12 as stated: every published frame carries the position and the heading
\* that were cached when its point cloud was decoded.
C12_Original ==
    [][ Publishes =>
          /\ Leaving.seen.pos # <<>>
          /\ Leaving.seen.hdg # <<>>
          /\ NewFrame = FrameOf(Leaving, Leaving.seen.pos[1], Leaving.seen.hdg[1]) ]_vars

\* What the code does instead: the rate limiter comes before the join, so every
\* published frame carries the position and the heading that are cached when
\* its point cloud leaves the rate limiter.
JoinAfterRateLimit ==
    [][ Publishes =>
          /\ last.pos # <<>>
          /\ last.hdg # <<>>
          /\ NewFrame = FrameOf(Leaving, last.pos[1], last.hdg[1]) ]_vars

\* A frame was published with heading 90 applied (azimuth 90 became 0) although
\* heading 0 was cached when its cloud was decoded
StaleCloudFreshHeading ==
    /\ published # <<>>
    /\ published[Len(published)].id = Val(last.pcd).id
    /\ Val(last.pcd).seen.hdg = <<0>>
    /\ Val(last.pcd).seen.pos # <<>>
    /\ published[Len(published)].points[1].az = 0

\* latest().cb takes a cloud in this step and hands it to the rate limiter
Taken == cbState = "woken" /\ latestNext' = <<>>

\* C18 as stated: the first point cloud decoded after both a position and a
\* heading are present (every earlier cloud was dropped at the join) is
\* published without waiting when no frame was published before, however
\* recently an earlier cloud was dropped.
C18_Original ==
    [][ (/\ Taken
         /\ latestNext[1].seen.pos # <<>>
         /\ latestNext[1].seen.hdg # <<>>
         /\ \A i \in 1..(latestNext[1].id - 1) : i \in dropped
         /\ published = <<>>)
        => Publishes ]_vars

\* What the code does instead: every cloud that passes the rate limiter,
\* dropped at the join or not, pushes the next emission time an interval
\* further, and a cloud is passed on at once only when that time has come.
DropsConsumeBudget ==
    [][ /\ (dropped' # dropped => rlNext' >= now + Interval)
        /\ (Taken => (CloudReachesJoin <=> now >= rlNext)) ]_vars

\* The rate limiter sleeps on a cloud decoded after both samples were present
\* because of a cloud that was dropped at the join; nothing was published yet
WaitsBehindDropped ==
    /\ cbState = "sleeping"
    /\ held[1].seen.pos # <<>>
    /\ held[1].seen.hdg # <<>>
    /\ dropped # {}
    /\ published = <<>>

----------------------------------------------------------------------------
(* Pending clouds *)

\* C13: a pending cloud that has not been replaced is emitted once the minimum
\* interval has elapsed, even if no further cloud arrives: when the interval
\* is over and both samples are present, a cloud still pending in latest() has
\* a callback that is about to emit it (cb is not idle on its condition).
C13_PendingEmitted ==
    (latestNext # <<>> /\ BothSeen /\ now >= rlNext) => cbState # "waiting"

----------------------------------------------------------------------------
(* The cache of the join *)

\* C14: a heading sample replaces the cached heading and nothing else: the
\* cached position, the cached cloud, the partition buffer and the clouds
\* pending in latest() and in the rate limiter stay as they are; likewise a
\* position sample.  A published frame carries the position and heading that
\* are cached when its cloud reaches the join.
C14_LatestValueCache ==
    [][ /\ \A e \in HdgEnvelopes :
              (last'.hdg # last.hdg /\ HdgArrival(e)) =>
                 /\ last'.hdg = <<heading_extractor(e)>>
                 /\ last'.pos = last.pos
                 /\ last'.pcd = last.pcd
                 /\ UNCHANGED <<buffer, latestNext, held, published>>
        /\ \A e \in PosEnvelopes :
              (last'.pos # last.pos /\ PosArrival(e)) =>
                 /\ last'.pos = <<position_extractor(e)>>
                 /\ last'.hdg = last.hdg
                 /\ last'.pcd = last.pcd
                 /\ UNCHANGED <<buffer, latestNext, held, published>>
        /\ Publishes =>
              /\ BothSeen
              /\ NewFrame.origin = geojson_Point(last.pos[1])
              /\ NewFrame.points =
                    transform_coords([pos |-> last.pos[1], hdg |-> last.hdg[1],
                                      points |-> Leaving.points]).points ]_vars

\* The heading was replaced (0, under which the first frame was published, by
\* 90) while a cloud is pending in the rate limiter and a position is cached
C14_Witness ==
    /\ cbState = "sleeping"
    /\ held # <<>>
    /\ last.hdg = <<90>>
    /\ last.pos # <<>>
    /\ published # <<>>
    /\ published[1].points[1].az = 90

----------------------------------------------------------------------------
(* Revolutions *)

\* C15: the i-th revolution handed to the decoder is made of the envelopes
\* (i-1)*K+1 .. i*K in arrival order, whatever they contain; the envelopes
\* after the last full group are the accumulator, which holds at most K-1 of
\* them between two arrivals.
C15_RevolutionGrouping ==
    /\ Len(buffer) <= K - 1
    /\ Len(decoded) = Len(arrived) \div K
    /\ \A i \in 1..Len(decoded) :
          decoded[i].rev = SubSeq(arrived, (i - 1) * K + 1, i * K)
    /\ buffer = SubSeq(arrived, Len(decoded) * K + 1, Len(arrived))

\* Two revolutions were formed, the first of them with an empty or malformed
\* slice in it, and a further envelope is in the accumulator
C15_Witness ==
    /\ Len(decoded) = 2
    /\ \E j \in 1..K : decoded[1].rev[j] \in {EmptyReading, OddReading}
    /\ decoded[2].rev[1] = MixedReading
    /\ Len(buffer) = K - 1

\* A slice that carries range samples
NonEmpty(envelope) == envelope.distances # <<>>

\* C16: a revolution decodes to what its non-empty slices alone decode to, so
\* an empty slice is skipped without error and contributes nothing; when no
\* point survives, the decoder returns no cloud and nothing goes downstream.
C16_EmptySlicesSkipped ==
    \A i \in 1..Len(decoded) :
        /\ decoded[i].out = point_cloud_reading_extractor(SelectSeq(decoded[i].rev, NonEmpty))
        /\ decoded[i].out = <<>> =>
              /\ produced = <<>>
              /\ latestNext = <<>>
              /\ cbState = "waiting"
              /\ published = <<>>

\* A revolution of an empty slice (with entriesPerAzimuth = 0) and a slice with
\* samples was decoded into a point cloud
C16_Witness ==
    /\ Len(decoded) = 1
    /\ decoded[1].rev[1].distances = <<>>
    /\ decoded[1].rev[1].entriesPerAzimuth = 0
    /\ decoded[1].out # <<>>
    /\ produced # <<>>

----------------------------------------------------------------------------
(* What is published *)

\* The frames published so far carry pairwise different clouds, each of them
\* one that left the decoder, and are no more than the clouds decoded
NoDuplicates(frames) ==
    /\ \A i, j \in 1..Len(frames) : i # j => frames[i].id # frames[j].id
    /\ \A i \in 1..Len(frames) : frames[i].id \in 1..Len(produced')
    /\ Len(frames) <= Len(produced')

\* C17: what was published changes only in a step in which a pending cloud
\* leaves latest() or the rate limiter, by the one frame that carries that
\* cloud; no cloud is published twice and no more frames are published than
\* clouds were decoded.
C17_NoHeartbeatNoDuplication ==
    [][ /\ NoDuplicates(published')
        /\ published' # published =>
              /\ latestNext # <<>> \/ held # <<>>
              /\ latestNext' = <<>> \/ held' = <<>>
              /\ published' = Append(published, NewFrame)
              /\ NewFrame.id = Leaving.id ]_vars

\* Three clouds were decoded, one of them was replaced while pending, the two
\* others were published, and time went on with nothing pending
C17_Witness ==
    /\ Len(produced) = 3
    /\ Len(published) = 2
    /\ replaced # {}
    /\ latestNext = <<>>
    /\ held = <<>>
    /\ now > published[2].t

\* C19: a cloud that reaches the join when nothing is missing is transformed
\* and handed to the publisher once, after the frames handed over before; in
\* every other step the publisher is not called.
C19_OneDeliveryPerFrame ==
    [][ IF CloudReachesJoin /\ missing' = {}
        THEN published' =
               Append(published,
                      to_mqtt(transform_coords([pos |-> Val(last'.pos),
                                                hdg |-> Val(last'.hdg),
                                                points |-> Val(last'.pcd).points]),
                              Val(last'.pcd).id, now))
        ELSE published' = published ]_vars

\* Two frames were handed to the publisher, in the order in which their clouds
\* left the decoder, the second one an interval after the first
C19_Witness ==
    /\ Len(published) = 2
    /\ published[1].id < published[2].id
    /\ published[2].t = published[1].t + Interval

\* C20: the origin of a published frame is exactly the (longitude, latitude)
\* pair cached at the join, longitude first, whatever the heading is.
C20_PositionPassThrough ==
    [][ Publishes =>
          /\ last.pos # <<>>
          /\ NewFrame.origin = last.pos[1] ]_vars

====
